---- MODULE Spec2Model ----
(***************************************************************************)
(* godash: the Board class (src/src/board.js), the position helpers        *)
(* (src/src/position.js) and the rules functions the class delegates to    *)
(* (./analysis, ./transforms, ./utils and the exports of ./board).  The    *)
(* class and the position helpers are translated from their source; the    *)
(* delegated rules functions are not part of the source tree at hand and   *)
(* are modelled from the design document (sections 3 and 4).               *)
(*                                                                         *)
(* A JavaScript value is a record with a kind field k.  An Immutable Map   *)
(* is [k |-> "map", size |-> the value under SIZE_KEY, stones |-> the      *)
(* other entries, a function from keys to values].  A position is the      *)
(* List [x, y], here the tuple <<x, y>>.                                   *)
(***************************************************************************)
EXTENDS Integers, FiniteSets, Sequences, TLC

VARIABLES
    board,   \* the Board object the next method call is made on
    before,  \* the Board object the observed call was made on
    call,    \* the observed call: [op, p, c, S, arg, ko, koBy]
    out,     \* what the last call did: [thrown, value]
    ko,      \* the ko point followupKo reported for the last accepted move ({} if none)
    koBy     \* the colour that made that move

vars == <<board, before, call, out, ko, koBy>>

(***************************************************************************)
(* Bounds                                                                  *)
(***************************************************************************)
\* sizes Board(n) is constructed with
BoardSizes == {2, 3}
\* stones on a board a method is called on
MaxStones == 5

(***************************************************************************)
(* Values                                                                  *)
(***************************************************************************)
BLACK == "black"
WHITE == "white"
EMPTY == "empty"

Num(n) == [k |-> "int", n |-> n]
\* the number n + 1/2
Half(n) == [k |-> "float", n |-> n]
\* the string holding the decimal digits of n
Str(n) == [k |-> "string", n |-> n]
Undefined == [k |-> "undefined", n |-> 0]
\* what stands for "no entry under this key" in a Map
Absent == [k |-> "absent", n |-> 0]

Map(size, stones) == [k |-> "map", size |-> size, stones |-> stones]

Map_isMap(v) == v.k = "map"

\* Map.get(SIZE_KEY, notSetValue)
Map_getSize(m, notSetValue) == IF m.size.k = "absent" THEN notSetValue ELSE m.size

isPositiveInteger(v) == v.k = "int" /\ v.n > 0

Thrown(e) == [thrown |-> TRUE, value |-> e]
Returned(v) == [thrown |-> FALSE, value |-> v]

(***************************************************************************)
(* src/src/position.js                                                     *)
(***************************************************************************)
position(x, y) ==
    LET valid_x == x = Num(0) \/ isPositiveInteger(x)
        valid_y == y = Num(0) \/ isPositiveInteger(y)
    IN  IF ~valid_x \/ ~valid_y
        THEN Thrown("TypeError")
        ELSE Returned(<<x.n, y.n>>)

\* Set(raw_positions): no position is checked
positions(raw_positions) == raw_positions

(***************************************************************************)
(* Immutable Map, as far as the rules functions use it                     *)
(***************************************************************************)
Map_has(m, key) == key \in DOMAIN m.stones

Map_get(m, key, notSetValue) == IF Map_has(m, key) THEN m.stones[key] ELSE notSetValue

Map_set(m, key, value) ==
    Map(m.size, [q \in (DOMAIN m.stones) \cup {key} |->
                    IF q = key THEN value ELSE m.stones[q]])

Map_deleteAll(m, keys) ==
    Map(m.size, [q \in (DOMAIN m.stones) \ keys |-> m.stones[q]])

(***************************************************************************)
(* ./analysis: colours, groups and liberties (design sections 3 and 4.2)   *)
(***************************************************************************)
oppositeColor(color) == IF color = BLACK THEN WHITE ELSE BLACK

\* a coordinate is on the board iff both its parts lie in [0, size)
isOnBoard(data, p) ==
    /\ p[1] >= 0 /\ p[1] < data.size.n
    /\ p[2] >= 0 /\ p[2] < data.size.n

allPossibleMoves(size) == (0..(size - 1)) \X (0..(size - 1))

\* the mapped value if present, else EMPTY
colorAt(data, p) == Map_get(data, p, EMPTY)

\* 4-connectivity: the coordinates that differ by exactly 1 in exactly one axis
adjacentPositions(p) ==
    {<<p[1] - 1, p[2]>>, <<p[1] + 1, p[2]>>, <<p[1], p[2] - 1>>, <<p[1], p[2] + 1>>}

matchingAdjacentPositions(data, p, color) ==
    {q \in adjacentPositions(p) : isOnBoard(data, q) /\ colorAt(data, q) = color}

\* breadth-first traversal with a visited set: a neighbour is admitted iff it
\* is on the board, holds the colour of the start and was not visited
RECURSIVE floodFill(_, _, _, _)
floodFill(data, color, frontier, visited) ==
    IF frontier = {}
    THEN visited
    ELSE LET admitted ==
                 UNION {matchingAdjacentPositions(data, m, color) : m \in frontier}
                     \ visited
         IN  floodFill(data, color, admitted, visited \cup admitted)

connectedGroup(data, p) == floodFill(data, colorAt(data, p), {p}, {p})

\* the empty on-board neighbours of any member of the group
groupLiberties(data, p) ==
    UNION {matchingAdjacentPositions(data, m, EMPTY) : m \in connectedGroup(data, p)}

group(data, p) ==
    IF ~isOnBoard(data, p)
    THEN Thrown("RangeError")
    ELSE Returned(connectedGroup(data, p))

liberties(data, p) ==
    IF ~isOnBoard(data, p)
    THEN Thrown("RangeError")
    ELSE Returned(groupLiberties(data, p))

libertyCount(data, p) == Cardinality(groupLiberties(data, p))

(***************************************************************************)
(* ./transforms and ./analysis: legality, captures, move application       *)
(* (design sections 4.3 and 4.4)                                           *)
(***************************************************************************)
emptyBoard(size) == Map(size, << >>)

\* unconditional write, no legality or capture processing
placeStone(data, p, color) ==
    IF ~isOnBoard(data, p)
    THEN Thrown("RangeError")
    ELSE Returned(Map_set(data, p, color))

\* builds the backing map from a listing of stones, no legality check
constructBoard(size, listing) ==
    Map(Num(size),
        [q \in {r \in DOMAIN listing : listing[r] # EMPTY} |-> listing[q]])

\* the given points are cleared; points already empty or off the board are
\* ignored
removeMoves(data, S) ==
    Map_deleteAll(data, {q \in S : isOnBoard(data, q) /\ Map_has(data, q)})

\* capture determination on the post-placement board: every opposite-colour
\* group next to p whose liberty count is zero
capturedBy(placed, p, color) ==
    UNION {connectedGroup(placed, q) :
              q \in {r \in matchingAdjacentPositions(placed, p, oppositeColor(color)) :
                        libertyCount(placed, r) = 0}}

\* the board after the stone is placed and the captures are removed
resolveMove(data, p, color) ==
    LET placed == Map_set(data, p, color)
    IN  removeMoves(placed, capturedBy(placed, p, color))

\* no ko point is supplied: rules 1 to 3 of section 4.3
isLegalMove(data, p, color) ==
    /\ isOnBoard(data, p)
    /\ colorAt(data, p) = EMPTY
    /\ libertyCount(resolveMove(data, p, color), p) > 0

addMove(data, p, color) ==
    IF ~isLegalMove(data, p, color)
    THEN Thrown("illegal move")
    ELSE Returned(resolveMove(data, p, color))

addBlackMove(data, p) == addMove(data, p, BLACK)

addWhiteMove(data, p) == addMove(data, p, WHITE)

\* the size of the capturing group is not looked at
followupKo_anyGroup(data, p, color) ==
    LET placed   == Map_set(data, p, color)
        killed   == capturedBy(placed, p, color)
        resolved == removeMoves(placed, killed)
    IN  IF /\ Cardinality(killed) = 1
           /\ libertyCount(resolved, p) = 1
        THEN killed
        ELSE {}

\* the set holding the ko point, or the empty set when there is none
followupKo(data, p, color) ==
    LET placed   == Map_set(data, p, color)
        killed   == capturedBy(placed, p, color)
        resolved == removeMoves(placed, killed)
    IN  IF /\ Cardinality(killed) = 1
           /\ connectedGroup(resolved, p) = {p}
           /\ libertyCount(resolved, p) = 1
        THEN killed
        ELSE {}

(***************************************************************************)
(* src/src/board.js: class Board                                           *)
(***************************************************************************)
isValidBoardMap(b) == Map_isMap(b) /\ isPositiveInteger(Map_getSize(b, Num(0)))

\* new Board(board_data)
Board(board_data) ==
    IF isValidBoardMap(board_data)
    THEN Returned([_data |-> board_data])
    ELSE IF isPositiveInteger(board_data)
         THEN Returned([_data |-> emptyBoard(board_data)])
         ELSE Thrown("TypeError")

Board_data(this) == this._data

\* this.data.get(SIZE_KEY)
Board_board_size(this) == Map_getSize(Board_data(this), Undefined)

\* new Board(f(...)): what f throws passes through the constructor call
NewBoard(r) == IF r.thrown THEN r ELSE Board(r.value)

\* the rules are bypassed: the stone is written and nothing is captured
Board_addBlackMove_placeOnly(this, p) ==
    NewBoard(placeStone(Board_data(this), p, BLACK))

Board_addBlackMove(this, p) == NewBoard(addBlackMove(Board_data(this), p))

Board_addWhiteMove(this, p) == NewBoard(addWhiteMove(Board_data(this), p))

\* the colour is not handed on
Board_addMove_dropsColor(this, p, color) ==
    NewBoard(addBlackMove(Board_data(this), p))

Board_addMove(this, p, color) == NewBoard(addMove(Board_data(this), p, color))

\* every point of the board is handed on instead of the given positions
Board_removeMoves_allPoints(this, S) ==
    Board(removeMoves(Board_data(this), allPossibleMoves(Board_data(this).size.n)))

Board_removeMoves(this, S) == Board(removeMoves(Board_data(this), S))

Board_allPossibleMoves(this) == allPossibleMoves(Board_board_size(this).n)

\* the neighbouring method's delegate is called
Board_group_asLiberties(this, p) == liberties(Board_data(this), p)

Board_group(this, p) == group(Board_data(this), p)

\* the colours of the two legality methods are swapped
Board_isLegalBlackMove_asWhite(this, p) == isLegalMove(Board_data(this), p, WHITE)

Board_isLegalBlackMove(this, p) == isLegalMove(Board_data(this), p, BLACK)

Board_isLegalWhiteMove_asBlack(this, p) == isLegalMove(Board_data(this), p, BLACK)

Board_isLegalWhiteMove(this, p) == isLegalMove(Board_data(this), p, WHITE)

Board_liberties(this, p) == liberties(Board_data(this), p)

\* other_board is a Board, a backing Map or undefined
Board_equals(this, other_board) ==
    IF other_board = Undefined
    THEN Thrown("TypeError")
    ELSE LET other == IF "_data" \in DOMAIN other_board
                      THEN other_board._data
                      ELSE other_board
         IN  Returned(Board_data(this) = other)

(***************************************************************************)
(* Inputs                                                                  *)
(***************************************************************************)
Colors == {BLACK, WHITE}

\* the positions position(x, y) builds for the points of a board of size n
\* and for one point beyond each of its far edges
InputPositions(n) ==
    {position(Num(q[1]), Num(q[2])).value :
        q \in allPossibleMoves(n) \cup {<<n, 0>>, <<0, n>>}}

\* the listings of at most MaxStones stones on a board of size n
Listings(n) ==
    {l \in [allPossibleMoves(n) -> {EMPTY, BLACK, WHITE}] :
        Cardinality({q \in allPossibleMoves(n) : l[q] # EMPTY}) <= MaxStones}

\* the sets of at most two positions
PositionSets(n) ==
    {{}} \cup {{p, q} : p \in InputPositions(n), q \in InputPositions(n)}

ArgKeys == {<<0, 0>>, <<1, 1>>, <<0, 3>>, <<-1, 1>>}

ArgValues == {BLACK, WHITE, EMPTY, "red"}

ArgSizes == {Absent, Undefined, Num(-1), Num(0), Num(2), Num(3), Half(2), Str(3)}

ArgStones == UNION {[K -> ArgValues] : K \in SUBSET ArgKeys}

\* what new Board(...) is called with: numbers, a string, undefined, and Maps
ConstructorArgs ==
    {Num(n) : n \in -1..3} \cup {Half(2), Str(3), Undefined}
        \cup {Map(sz, st) : sz \in ArgSizes, st \in ArgStones}

(***************************************************************************)
(* The calls                                                               *)
(***************************************************************************)
NoCall ==
    [op |-> "none", p |-> <<0, 0>>, c |-> BLACK, S |-> {}, arg |-> Undefined,
     ko |-> {}, koBy |-> BLACK]

Call(op, p, c, S, arg) ==
    [op |-> op, p |-> p, c |-> c, S |-> S, arg |-> arg, ko |-> ko, koBy |-> koBy]

\* a method that returns a new Board or throws; the caller goes on with the
\* new Board, and after an accepted move keeps the ko point it leaves
Transform(c0, r, isMove) ==
    /\ before' = board
    /\ call' = c0
    /\ out' = r
    /\ board' = IF r.thrown THEN board ELSE r.value
    /\ ko' = IF r.thrown \/ ~isMove THEN ko
             ELSE followupKo(Board_data(board), c0.p, c0.c)
    /\ koBy' = IF r.thrown \/ ~isMove THEN koBy ELSE c0.c

\* a method that only reads the Board
Query(c0, r) ==
    /\ before' = board
    /\ call' = c0
    /\ out' = r
    /\ UNCHANGED <<board, ko, koBy>>

DoAddMove(p, c) ==
    Transform(Call("addMove", p, c, {}, Undefined), Board_addMove(board, p, c), TRUE)

DoRemoveMoves(S) ==
    Transform(Call("removeMoves", <<0, 0>>, BLACK, S, Undefined),
              Board_removeMoves(board, positions(S)), FALSE)

DoNew(arg) ==
    Transform(Call("new", <<0, 0>>, BLACK, {}, arg), Board(arg), FALSE)

DoGroup(p) ==
    Query(Call("group", p, BLACK, {}, Undefined), Board_group(board, p))

DoIsLegalBlackMove(p) ==
    Query(Call("isLegalBlackMove", p, BLACK, {}, Undefined),
          Returned(Board_isLegalBlackMove(board, p)))

DoIsLegalWhiteMove(p) ==
    Query(Call("isLegalWhiteMove", p, WHITE, {}, Undefined),
          Returned(Board_isLegalWhiteMove(board, p)))

\* followupKo is asked about a move the rules accept
DoFollowupKo(p, c) ==
    /\ isLegalMove(Board_data(board), p, c)
    /\ Query(Call("followupKo", p, c, {}, Undefined),
             Returned(followupKo(Board_data(board), p, c)))

size == Board_board_size(board).n

stoneCount == Cardinality(DOMAIN Board_data(board).stones)

(***************************************************************************)
(* Spec: a game played from the empty board through the move methods; a    *)
(* move is made on a board of at most MaxStones stones.  The game keeps    *)
(* the board, the outcome of the last call and the ko point; no call is    *)
(* singled out for observation.                                            *)
(***************************************************************************)
Play(r, p, c) ==
    /\ out' = r
    /\ board' = IF r.thrown THEN board ELSE r.value
    /\ ko' = IF r.thrown THEN ko ELSE followupKo(Board_data(board), p, c)
    /\ koBy' = IF r.thrown THEN koBy ELSE c
    /\ UNCHANGED <<before, call>>

Init ==
    /\ \E n \in BoardSizes : board = Board(Num(n)).value
    /\ before = board
    /\ call = NoCall
    /\ out = Returned(board)
    /\ ko = {}
    /\ koBy = BLACK

AddMove ==
    /\ stoneCount <= MaxStones
    /\ \E p \in InputPositions(size), c \in Colors :
           Play(Board_addMove(board, p, c), p, c)

AddBlackMove ==
    /\ stoneCount <= MaxStones
    /\ \E p \in InputPositions(size) : Play(Board_addBlackMove(board, p), p, BLACK)

AddWhiteMove ==
    /\ stoneCount <= MaxStones
    /\ \E p \in InputPositions(size) : Play(Board_addWhiteMove(board, p), p, WHITE)

Next == AddMove \/ AddBlackMove \/ AddWhiteMove

Spec == Init /\ [][Next]_vars

(***************************************************************************)
(* SpecFn: one observed call on a board built from a listing of stones,    *)
(* and, when an accepted move leaves a ko point, the move that follows it  *)
(***************************************************************************)
InitFn ==
    /\ \E n \in BoardSizes : \E l \in Listings(n) :
           board = Board(constructBoard(n, l)).value
    /\ before = board
    /\ call = NoCall
    /\ out = Returned(board)
    /\ ko = {}
    /\ koBy = BLACK

FnAddMove ==
    /\ call.op = "none"
    /\ \E p \in InputPositions(size), c \in Colors : DoAddMove(p, c)

\* the caller holds a ko point after its move and moves again
FnNextMove ==
    /\ call.op = "addMove" /\ call.ko = {}
    /\ ko # {}
    /\ \E p \in InputPositions(size), c \in Colors : DoAddMove(p, c)

FnRemoveMoves ==
    /\ call.op = "none"
    /\ \E S \in PositionSets(size) : DoRemoveMoves(S)

FnGroup ==
    /\ call.op = "none"
    /\ \E p \in InputPositions(size) : DoGroup(p)

FnIsLegalBlackMove ==
    /\ call.op = "none"
    /\ \E p \in InputPositions(size) : DoIsLegalBlackMove(p)

FnIsLegalWhiteMove ==
    /\ call.op = "none"
    /\ \E p \in InputPositions(size) : DoIsLegalWhiteMove(p)

FnFollowupKo ==
    /\ call.op = "none"
    /\ \E p \in InputPositions(size), c \in Colors : DoFollowupKo(p, c)

NextFn ==
    \/ FnAddMove
    \/ FnNextMove
    \/ FnRemoveMoves
    \/ FnGroup
    \/ FnIsLegalBlackMove
    \/ FnIsLegalWhiteMove
    \/ FnFollowupKo

SpecFn == InitFn /\ [][NextFn]_vars

(***************************************************************************)
(* SpecNew: one call of the constructor                                    *)
(***************************************************************************)
New ==
    /\ call.op = "none"
    /\ \E arg \in ConstructorArgs : DoNew(arg)

NextNew == New

SpecNew == Init /\ [][NextNew]_vars

(***************************************************************************)
(* The rules of the game, stated on their own for the properties below     *)
(***************************************************************************)
Points(d) == (0..(d.size.n - 1)) \X (0..(d.size.n - 1))

Abs(i) == IF i < 0 THEN -i ELSE i

Adjacent4(p, q) == Abs(p[1] - q[1]) + Abs(p[2] - q[2]) = 1

NeighboursOf(d, p) == {q \in Points(d) : Adjacent4(p, q)}

\* no stone connected to q has an empty point next to it
HasNoLiberty(d, q) ==
    \A m \in connectedGroup(d, q) : \A n \in NeighboursOf(d, m) : colorAt(d, n) # EMPTY

\* the stones of the opposite colour without a liberty once c stands on p
DeadOpponents(d, p, c) ==
    LET placed == Map_set(d, p, c)
    IN  {q \in Points(d) :
            colorAt(placed, q) = oppositeColor(c) /\ HasNoLiberty(placed, q)}

\* those of them whose group touches p: the stones the placement captures
CapturedPoints(d, p, c) ==
    LET placed == Map_set(d, p, c)
    IN  {q \in DeadOpponents(d, p, c) :
            \E n \in NeighboursOf(d, p) : n \in connectedGroup(placed, q)}

AfterCaptures(d, p, c) == Map_deleteAll(Map_set(d, p, c), CapturedPoints(d, p, c))

AfterAllDeadRemoved(d, p, c) == Map_deleteAll(Map_set(d, p, c), DeadOpponents(d, p, c))

IsEmptyPoint(d, p) == p \in Points(d) /\ colorAt(d, p) = EMPTY

\* the observed call is a move method applied to (p, c)
ObservedMove == call.op = "addMove"

\* the move repeats the capture the ko point forbids
KoViolation == call.p \in call.ko /\ call.c = oppositeColor(call.koBy)

(***************************************************************************)
(* C1: when addMove(b, p, c) succeeds on an empty point p, the new board   *)
(* has c at p, has lost exactly the stones of the opposite-colour groups   *)
(* next to p that have no liberty once c stands on p, and is b everywhere  *)
(* else, with the size of b.                                               *)
(***************************************************************************)
C1_AddMoveResult ==
    (ObservedMove /\ ~out.thrown /\ IsEmptyPoint(Board_data(before), call.p)) =>
        LET d == Board_data(before)
            a == Board_data(out.value)
        IN  /\ a.size = d.size
            /\ DOMAIN a.stones \subseteq Points(d) \cup DOMAIN d.stones
            /\ colorAt(a, call.p) = call.c
            /\ \A q \in (Points(d) \cup DOMAIN d.stones) \ {call.p} :
                   colorAt(a, q) = IF q \in CapturedPoints(d, call.p, call.c)
                                   THEN EMPTY
                                   ELSE colorAt(d, q)

\* a move that captures two groups at once and leaves another opposing stone
C1_Witness ==
    /\ ObservedMove /\ ~out.thrown
    /\ IsEmptyPoint(Board_data(before), call.p)
    /\ LET d == Board_data(before)
           k == CapturedPoints(d, call.p, call.c)
       IN  /\ \E q \in k, r \in k :
                  r \notin connectedGroup(Map_set(d, call.p, call.c), q)
           /\ \E q \in Points(d) :
                  colorAt(Board_data(out.value), q) = oppositeColor(call.c)

(***************************************************************************)
(* C3: on an empty point p, isLegalMove(b, p, c) is false when the group   *)
(* of p has no liberty after c is placed and every opposite-colour group   *)
(* without a liberty is removed; it is true when the placement captures    *)
(* at least one group and the group of p, without a liberty before the     *)
(* captures are removed, has one after.                                    *)
(***************************************************************************)
ObservedLegality == call.op \in {"isLegalBlackMove", "isLegalWhiteMove"}

C3_NoSuicideAfterCaptures ==
    (ObservedLegality /\ IsEmptyPoint(Board_data(before), call.p)) =>
        LET d == Board_data(before)
        IN  /\ HasNoLiberty(AfterAllDeadRemoved(d, call.p, call.c), call.p)
                   => out.value = FALSE
            /\ ( /\ CapturedPoints(d, call.p, call.c) # {}
                 /\ HasNoLiberty(Map_set(d, call.p, call.c), call.p)
                 /\ ~HasNoLiberty(AfterCaptures(d, call.p, call.c), call.p) )
                   => out.value = TRUE

\* white asks about a point without a liberty of its own that captures
C3_Witness ==
    /\ call.op = "isLegalWhiteMove"
    /\ IsEmptyPoint(Board_data(before), call.p)
    /\ CapturedPoints(Board_data(before), call.p, call.c) # {}
    /\ HasNoLiberty(Map_set(Board_data(before), call.p, call.c), call.p)
    /\ out.value = TRUE

(***************************************************************************)
(* C6: followupKo(b, p, c) returns a ko point iff the move captures        *)
(* exactly one stone and, the capture removed, the stone on p has no       *)
(* neighbour of its colour and exactly one liberty; the point returned is  *)
(* the point of the captured stone.                                        *)
(***************************************************************************)
KoShape(d, p, c) ==
    LET resolved == AfterCaptures(d, p, c)
    IN  /\ Cardinality(CapturedPoints(d, p, c)) = 1
        /\ \A n \in NeighboursOf(d, p) : colorAt(resolved, n) # c
        /\ Cardinality({n \in NeighboursOf(d, p) : colorAt(resolved, n) = EMPTY}) = 1

C6_FollowupKo ==
    call.op = "followupKo" =>
        LET d == Board_data(before)
        IN  /\ out.value # {} <=> KoShape(d, call.p, call.c)
            /\ out.value # {} => out.value = CapturedPoints(d, call.p, call.c)

\* a ko point is returned
C6_Witness ==
    /\ call.op = "followupKo"
    /\ out.value # {}

\* a single stone is captured, and no ko point is returned
C6_WitnessNone ==
    /\ call.op = "followupKo"
    /\ Cardinality(CapturedPoints(Board_data(before), call.p, call.c)) = 1
    /\ out.value = {}

(***************************************************************************)
(* C7: for an occupied point p of the board, group(b, p) contains p, all   *)
(* its members have the colour of p, each member is connected to p through *)
(* adjacent members, and every point of the board outside it that is       *)
(* adjacent to a member is empty or of the opposite colour.                *)
(***************************************************************************)
C7_GroupClosure ==
    ( /\ call.op = "group"
      /\ call.p \in Points(Board_data(before))
      /\ colorAt(Board_data(before), call.p) # EMPTY ) =>
        LET d == Board_data(before)
            col == colorAt(d, call.p)
            G == out.value
        IN  /\ ~out.thrown
            /\ call.p \in G
            /\ G \subseteq Points(d)
            /\ \A m \in G : colorAt(d, m) = col
            /\ \A T \in SUBSET G :
                   (call.p \in T /\ T # G) =>
                       \E m \in T, q \in G \ T : Adjacent4(m, q)
            /\ \A m \in G : \A q \in NeighboursOf(d, m) \ G : colorAt(d, q) # col

\* a group of three stones or more that bends, beside a stone of its colour
\* that is not part of it
C7_Witness ==
    /\ call.op = "group" /\ ~out.thrown
    /\ colorAt(Board_data(before), call.p) # EMPTY
    /\ Cardinality(out.value) >= 3
    /\ \E m \in out.value : m[1] # call.p[1] /\ m[2] # call.p[2]
    /\ \E q \in Points(Board_data(before)) \ out.value :
           colorAt(Board_data(before), q) = colorAt(Board_data(before), call.p)

(***************************************************************************)
(* C8: removing S twice gives what removing S once gives; the positions of *)
(* S that are empty or off the board are passed over without an error; and *)
(* every point outside S keeps its colour.                                 *)
(***************************************************************************)
C8_RemoveIdempotent ==
    call.op = "removeMoves" =>
        /\ ~out.thrown
        /\ Board_removeMoves(out.value, call.S) = out
        /\ Board_board_size(out.value) = Board_board_size(before)
        /\ \A q \in Points(Board_data(before)) \ call.S :
               colorAt(Board_data(out.value), q) = colorAt(Board_data(before), q)

\* S holds a stone and a point off the board, and a stone is left
C8_Witness ==
    /\ call.op = "removeMoves" /\ ~out.thrown
    /\ \E q \in call.S : colorAt(Board_data(before), q) # EMPTY
    /\ \E q \in call.S : q \notin Points(Board_data(before))
    /\ DOMAIN Board_data(out.value).stones # {}

(***************************************************************************)
(* C9: with no ko point held, addMove(b, p, c) returns a board iff the     *)
(* legality query of colour c answers true for p, and throws iff it        *)
(* answers false.                                                          *)
(***************************************************************************)
LegalityQuery(b, p, c) ==
    IF c = BLACK THEN Board_isLegalBlackMove(b, p) ELSE Board_isLegalWhiteMove(b, p)

C9_WitnessRefused ==
    /\ ObservedMove /\ call.ko = {} /\ out.thrown
    /\ IsEmptyPoint(Board_data(before), call.p)

(***************************************************************************)
(* C10: on every board reached from the empty board by accepted moves,     *)
(* every stone lies on a point of the board and every group has a liberty. *)
(***************************************************************************)
C10_NoDeadStones ==
    LET d == Board_data(board)
    IN  \A q \in DOMAIN d.stones :
            /\ q \in Points(d)
            /\ d.stones[q] \in Colors
            /\ ~HasNoLiberty(d, q)

\* the last move captured a stone and left a ko
C10_Witness ==
    /\ ko # {}
    /\ ~out.thrown
    /\ stoneCount >= 4

(***************************************************************************)
(* C2: an illegal move (occupied point, suicide, ko violation) makes       *)
(* addMove throw, and the board is the board of before.                    *)
(***************************************************************************)
IllegalMove ==
    LET d == Board_data(before)
    IN  \/ colorAt(d, call.p) # EMPTY
        \/ /\ IsEmptyPoint(d, call.p)
           /\ HasNoLiberty(AfterCaptures(d, call.p, call.c), call.p)
        \/ KoViolation

C2_RejectionIsAtomic ==
    (ObservedMove /\ IllegalMove) => (out.thrown /\ board = before)

(***************************************************************************)
(* C4: after a capture of one stone that forms a ko, the move of the other *)
(* colour that follows it on the vacated point is refused.                 *)
(***************************************************************************)
C4_KoRetakeRefused ==
    (ObservedMove /\ call.ko # {} /\ KoViolation) => out.thrown

(***************************************************************************)
(* C5: the constructor accepts a Map only if its size is a positive        *)
(* integer and every other key is a point of a board of that size mapped   *)
(* to BLACK or WHITE; it throws a TypeError for any other Map and for any  *)
(* argument that is no positive integer; for a positive integer n it       *)
(* gives the empty board of size n, equal to the board built from a Map    *)
(* holding only the size n.                                                *)
(***************************************************************************)
ValidBoardEncoding(v) ==
    /\ v.k = "map"
    /\ v.size.k = "int" /\ v.size.n > 0
    /\ \A q \in DOMAIN v.stones : q \in Points(v) /\ v.stones[q] \in Colors

IsPositiveIntegerArg(v) == v.k = "int" /\ v.n > 0

C5_ConstructorValidates ==
    call.op = "new" =>
        /\ out.thrown <=> ~(ValidBoardEncoding(call.arg) \/ IsPositiveIntegerArg(call.arg))
        /\ out.thrown => out.value = "TypeError"
        /\ IsPositiveIntegerArg(call.arg) =>
               /\ DOMAIN Board_data(out.value).stones = {}
               /\ Board_equals(out.value, Board(Map(call.arg, << >>)).value)
                      = Returned(TRUE)

====
